---- MODULE Spec2Model ----
(***************************************************************************)
(* Model of album_arrange.py: the per-year catalog (database.json), the    *)
(* dedup pass, the camera-roll sort, the sequencer/placement loop and the  *)
(* final catalog write of import_assets, seperate_database,                *)
(* import_assets_from_project and rebuild_order.                           *)
(*                                                                         *)
(* Representation:                                                         *)
(*  - a fingerprint (md5 hexdigest, fixed width lower-case hex) is a       *)
(*    natural number; string order of hexdigests is numeric order;         *)
(*  - a label '%02d%02d' % (tm_year, tm_mon) is the number year*100+mon,   *)
(*    so label[:4] is label \div 100;                                      *)
(*  - a destination filename '%s_%04d.%s' % (label, sequence, extension)   *)
(*    is the record [label, seq, ext] (the formatting is injective);       *)
(*  - a source path is [stem, ext]: src_location[:rfind('.')] and          *)
(*    src_location[rfind('.')+1:]; stems are numbered in string order;     *)
(*  - a catalog document is [hash, index], two functions (python dicts);    *)
(*    json.dump followed by json.load returns such a document unchanged;   *)
(*  - the capture timestamp is os.stat().st_birthtime, a number (the       *)
(*    field exists on the platforms the script is written for);            *)
(*  - an exception ends the command: pc = "failed", error names it.        *)
(***************************************************************************)
EXTENDS Integers, Sequences, FiniteSets, TLC

VARIABLES
    dirs,           \* year directories that exist under the project
    disk,           \* disk[y]: the file project/y/database.json
    aggregate,      \* the file project/database.json read by seperate_database
    files,          \* asset files inside the project: [year, date, name, digest]
    srcfiles,       \* source files that still exist outside the project
    pc,             \* position of the running command
    error,          \* the exception that ended the last command, or "none"
    with_copy,      \* options.with_copy of the run
    with_date,      \* options.with_date of the run
    asset_list,     \* import_assets argument
    i,              \* index of the dedup loop (line 104)
    accept_map,     \* line 103
    increment_list, \* line 103
    database,       \* line 84: the run's cache, year -> catalog
    order,          \* insertion order of the keys of database
    live_map,       \* line 127
    n,              \* index of the placement loop (line 128)
    w,              \* index of the write loop (line 160)
    disk0,          \* history: disk when the run started
    files0,         \* history: files when the run started
    placed,         \* history: files copied or moved by the run, with their source
    writes,         \* history: number of writes of each year's catalog in the run
    command,        \* options.command of the running process, or "none"
    project,        \* the project at options.project_path of import-project
    tempdirs,       \* the years y whose directory y_temp exists
    tempfiles,      \* asset files inside the y_temp directories
    todo,           \* rebuild_order: the years of options.years still to do
    split,          \* history: the years seperate_database wrote
    given_copy      \* history: --with-copy as given on the command line

vars == <<dirs, disk, aggregate, files, srcfiles, pc, error, with_copy, with_date,
          asset_list, i, accept_map, increment_list, database, order, live_map,
          n, w, disk0, files0, placed, writes, command, project, tempdirs,
          tempfiles, todo, split, given_copy>>

(***************************************************************************)
(* Bounds and input sets                                                   *)
(***************************************************************************)
MaxAssets == 3      \* longest asset_list handed to import_assets

Years == {2023, 2024}
NoDate == [year |-> 0, mon |-> 0, day |-> 0]
EmptyMap == <<>>

MTime(y, m, d) == [year |-> y, mon |-> m, day |-> d]
Path(s, e) == [stem |-> s, ext |-> e]
File(s, e, b, mt, dg) == [path |-> Path(s, e), birth |-> b, mtime |-> mt, digest |-> dg]

\* The source files an import can be pointed at.  Paths are distinct; the
\* attributes cover: a companion pair within one label (stem 1 JPG/MOV), its
\* third member, which falls under another label (HEIC), three files of one
\* label with distinct content, stems and birth times (stems 1, 2, 3), equal
\* birth times with path order against and along fingerprint order, two
\* files with the same content (1.MOV and 4.JPG), and a second year.
SourceFiles ==
    { File(1, "JPG",  1, MTime(2023, 5, 1), 2),
      File(1, "MOV",  1, MTime(2023, 5, 1), 1),
      File(1, "HEIC", 2, MTime(2023, 6, 1), 5),
      File(2, "JPG",  2, MTime(2023, 5, 2), 6),
      File(3, "JPG",  3, MTime(2023, 5, 3), 3),
      File(4, "JPG",  2, MTime(2024, 5, 1), 1),
      File(4, "MOV",  3, MTime(2024, 5, 1), 4) }

Name(l, s, e) == [label |-> l, seq |-> s, ext |-> e]
Catalog(h, x) == [kind |-> "ok", hash |-> h, index |-> x]
Absent == [kind |-> "absent", hash |-> EmptyMap, index |-> EmptyMap]
Corrupt == [kind |-> "corrupt", hash |-> EmptyMap, index |-> EmptyMap]

\* The aggregate catalogs seperate_database can be given: two consistent
\* ones, one whose sections name different years, one with empty sections.
Aggregates ==
    { Catalog((2 :> Name(202305, 1, "JPG")) @@ (1 :> Name(202305, 1, "MOV")),
              (202305 :> 2)),
      Catalog((2 :> Name(202305, 1, "JPG")) @@ (4 :> Name(202405, 1, "MOV")),
              (202305 :> 2) @@ (202405 :> 2)),
      Catalog((2 :> Name(202305, 1, "JPG")),
              (202305 :> 2) @@ (202405 :> 1)),
      Catalog(EmptyMap, EmptyMap) }

\* a file of a project: project/year[/date]/name with content digest
Stored(y, d, nm, dg) == [year |-> y, date |-> d, name |-> nm, digest |-> dg]

\* a project directory: its year directories, their catalogs, its asset files
Project(ds, cats, fs) == [dirs |-> ds, disk |-> cats, files |-> fs]

\* The projects import-project can be pointed at: two files of one year;
\* one file in each of two years; a file kept in a date folder, so that it
\* is not at year/name; a year directory without database.json.
Projects ==
    { Project({2023},
              (2023 :> Catalog((2 :> Name(202305, 1, "JPG")) @@
                               (3 :> Name(202305, 2, "JPG")), (202305 :> 3))) @@
              (2024 :> Absent),
              { Stored(2023, NoDate, Name(202305, 1, "JPG"), 2),
                Stored(2023, NoDate, Name(202305, 2, "JPG"), 3) }),
      Project({2023, 2024},
              (2023 :> Catalog((2 :> Name(202305, 1, "JPG")), (202305 :> 2))) @@
              (2024 :> Catalog((4 :> Name(202405, 1, "MOV")), (202405 :> 2))),
              { Stored(2023, NoDate, Name(202305, 1, "JPG"), 2),
                Stored(2024, NoDate, Name(202405, 1, "MOV"), 4) }),
      Project({2024},
              (2023 :> Absent) @@
              (2024 :> Catalog((1 :> Name(202405, 1, "JPG")), (202405 :> 2))),
              { Stored(2024, MTime(2024, 5, 1), Name(202405, 1, "JPG"), 1) }),
      Project({2023}, (2023 :> Absent) @@ (2024 :> Absent), {}) }

Range(f) == { f[x] : x \in DOMAIN f }

RECURSIVE SeqsOver(_, _)
\* the sequences of at most k distinct elements of S
SeqsOver(S, k) ==
    IF k = 0 THEN {<<>>}
    ELSE LET shorter == SeqsOver(S, k - 1)
         IN shorter \cup
            UNION { { Append(s, x) : x \in S \ Range(s) } :
                    s \in { t \in shorter : Len(t) = k - 1 } }

(***************************************************************************)
(* Pure helpers of the program                                             *)
(***************************************************************************)
\* name[:4] of a label or of a destination filename (lines 169, 176)
YearOfLabel(l) == l \div 100

\* line 130
Label(mtime) == mtime.year * 100 + mtime.mon

\* python's string order on extensions
ExtRank(e) == CASE e = "HEIC" -> 1 [] e = "JPG" -> 2 [] e = "MOV" -> 3

\* a[-1] > b[-1] on the source paths: string order of stem + "." + ext
PathGreater(p, q) ==
    \/ p.stem > q.stem
    \/ p.stem = q.stem /\ ExtRank(p.ext) > ExtRank(q.ext)

\* camera_roll_sort breaking ties on the fingerprint a[2] instead of a[-1]
camera_roll_sort_by_digest(a, b) ==
    IF a[1] # b[1] THEN (IF a[1] > b[1] THEN 1 ELSE -1)
    ELSE IF a[3] > b[3] THEN 1 ELSE -1

\* lines 120-122: item = (timestamp, mtime, digest, target_location)
camera_roll_sort(a, b) ==
    IF a[1] # b[1] THEN (IF a[1] > b[1] THEN 1 ELSE -1)
    ELSE IF PathGreater(a[4], b[4]) THEN 1 ELSE -1

RECURSIVE Insert(_, _)
Insert(s, x) ==
    IF s = <<>> THEN <<x>>
    ELSE IF camera_roll_sort(s[Len(s)], x) <= 0 THEN Append(s, x)
    ELSE Append(Insert(SubSeq(s, 1, Len(s) - 1), x), s[Len(s)])

RECURSIVE SortList(_)
\* line 125: list.sort with the comparator (stable insertion of each item)
SortList(s) ==
    IF s = <<>> THEN <<>>
    ELSE Insert(SortList(SubSeq(s, 1, Len(s) - 1)), s[Len(s)])

\* get_database that never reads the file
LoadDatabase_empty(name) == [hash |-> EmptyMap, index |-> EmptyMap]

\* get_database that leaves the "index" section of the file behind
LoadDatabase_no_index(name) ==
    IF name \in dirs /\ disk[name].kind = "ok"
    THEN [hash |-> disk[name].hash, index |-> EmptyMap]
    ELSE [hash |-> EmptyMap, index |-> EmptyMap]

\* lines 88-97: what get_database reads when the year is not cached
LoadDatabase(name) ==
    IF name \in dirs /\ disk[name].kind = "ok"
    THEN [hash |-> disk[name].hash, index |-> disk[name].index]
    ELSE [hash |-> EmptyMap, index |-> EmptyMap]

\* lines 85-99: the cache after get_database(name)
get_database(db, name) ==
    IF name \in DOMAIN db THEN db ELSE db @@ (name :> LoadDatabase(name))

\* a cache that notes the year on every access
CacheOrder_every_access(db, ord, name) == Append(ord, name)

\* insertion order of the cache after get_database(name)
CacheOrder(db, ord, name) ==
    IF name \in DOMAIN db THEN ord ELSE Append(ord, name)

\* write_database that drops the "index" section
write_database_no_index(data) == Catalog(data.hash, EmptyMap)

\* lines 190-194: the file written for a cached catalog
write_database(data) == Catalog(data.hash, data.index)

\* The path year[/date]/name inside a project, without its extension, as a
\* number that orders such paths as python orders the strings: the year,
\* then the date folder ('-' sorts before the digits of a filename, so a
\* dated path comes before an undated one), then label and sequence.
ProjectStem(year, date, name) ==
    LET datecode == IF date = NoDate THEN 511 ELSE date.mon * 32 + date.day
    IN (((year - 2000) * 512 + datecode) * 200 + (name.label - 202300)) * 100
       + name.seq

\* What lines 105-111 read from a stored file: a file placed under a label
\* carries that month as its modification time, and the files of a label
\* were created in the order of their sequence numbers.
ProjectAsset(f) ==
    File(ProjectStem(f.year, f.date, f.name), f.name.ext, f.name.seq,
         MTime(f.name.label \div 100, f.name.label % 100, 1), f.digest)

\* lines 216, 221: os.path.join(project_path, year, name); the attributes
\* are those of the file there, if there is one
QueuedAsset(prj, year, name) ==
    LET there == { f \in prj.files :
                     f.year = year /\ f.date = NoDate /\ f.name = name }
    IN IF there = {}
       THEN File(ProjectStem(year, NoDate, name), name.ext, 0, NoDate, 0)
       ELSE ProjectAsset(CHOOSE f \in there : TRUE)

\* os.stat, open (lines 105, 109): the files that can be read
Readable(prj, temp, src) ==
    src \cup { ProjectAsset(f) : f \in prj.files }
        \cup { ProjectAsset(f) : f \in temp }

\* line 136: dict.get without a default; None is something that cannot be
\* unpacked into (sequence, reference_count)
None == <<>>
live_map_get(lm, key) == IF key \in DOMAIN lm THEN lm[key] ELSE None

\* line 134: the label's counter defaults to 1
WithLabel(index_map, label) ==
    IF label \in DOMAIN index_map THEN index_map ELSE index_map @@ (label :> 1)

\* lines 137-143 for a (sequence, reference_count) found in live_map:
\* the sequence used, the new live_map and the new index_map
Sequencer(lm, index_map, label, common_path, got) ==
    LET reference_count == got[2]
        sequence == IF reference_count >= 2 THEN 0 ELSE got[1]
    IN IF sequence = 0
       THEN [sequence |-> index_map[label],
             live_map |-> [lm EXCEPT ![common_path] = <<index_map[label], 1>>],
             index_map |-> [index_map EXCEPT ![label] = @ + 1]]
       ELSE [sequence |-> sequence,
             live_map |-> [lm EXCEPT ![common_path] = <<sequence, reference_count + 1>>],
             index_map |-> index_map]

\* lines 146-148: the directory of the destination inside the project
DstGroup(mtime, dated) == IF dated THEN mtime ELSE NoDate

\* line 152: os.path.exists(dst_location)
Exists(fs, year, date, name) ==
    \E f \in fs : f.year = year /\ f.date = date /\ f.name = name

(***************************************************************************)
(* State                                                                   *)
(***************************************************************************)
\* import-project has not been given a project
NoProject == [dirs |-> {}, disk |-> [y \in Years |-> Absent], files |-> {}]

\* the values of the run's variables when no run has started
NoRun ==
    [with_copy |-> FALSE, with_date |-> FALSE, asset_list |-> <<>>, i |-> 1,
     accept_map |-> EmptyMap, increment_list |-> <<>>, database |-> EmptyMap,
     order |-> <<>>, live_map |-> EmptyMap, n |-> 0, w |-> 0, placed |-> {},
     writes |-> [y \in Years |-> 0]]

\* the asset files an album described by the aggregate catalog holds
AlbumFiles(agg, ds) ==
    { [year |-> YearOfLabel(agg.hash[h].label), date |-> NoDate,
       name |-> agg.hash[h], digest |-> h] :
      h \in { d \in DOMAIN agg.hash : YearOfLabel(agg.hash[d].label) \in ds } }

Init ==
    /\ dirs \in {Years, {2023}}
    \* no per-year catalog yet; the later year's file may be unreadable
    /\ disk \in [Years -> {Absent, Corrupt}]
    /\ disk[2023] = Absent
    /\ \A y \in Years : y \notin dirs => disk[y] = Absent
    /\ aggregate \in Aggregates
    /\ files = AlbumFiles(aggregate, dirs)
    /\ srcfiles = SourceFiles
    /\ pc = "idle"
    /\ error = "none"
    /\ with_copy = NoRun.with_copy
    /\ with_date = NoRun.with_date
    /\ asset_list = NoRun.asset_list
    /\ i = NoRun.i
    /\ accept_map = NoRun.accept_map
    /\ increment_list = NoRun.increment_list
    /\ database = NoRun.database
    /\ order = NoRun.order
    /\ live_map = NoRun.live_map
    /\ n = NoRun.n
    /\ w = NoRun.w
    /\ placed = NoRun.placed
    /\ writes = NoRun.writes
    /\ disk0 = disk
    /\ files0 = files
    /\ command = "none"
    /\ given_copy = FALSE
    /\ project = NoProject
    /\ tempdirs = {}
    /\ tempfiles = {}
    /\ todo = <<>>
    /\ split = {}

Idle == pc = "idle"

(***************************************************************************)
(* seperate_database, lines 163-188                                        *)
(***************************************************************************)
IndexYears(agg) == { YearOfLabel(l) : l \in DOMAIN agg.index }
HashYears(agg) == { YearOfLabel(agg.hash[h].label) : h \in DOMAIN agg.hash }

\* a per-year catalog that keeps the whole "index" section
MiniDatabase_whole_index(agg, year) ==
    Catalog([h \in { d \in DOMAIN agg.hash : YearOfLabel(agg.hash[d].label) = year }
                |-> agg.hash[h]],
            agg.index)

\* lines 183-187: the catalog of one year
MiniDatabase(agg, year) ==
    Catalog([h \in { d \in DOMAIN agg.hash : YearOfLabel(agg.hash[d].label) = year }
                |-> agg.hash[h]],
            [l \in { k \in DOMAIN agg.index : YearOfLabel(k) = year }
                |-> agg.index[l]])

\* the assertions without the comparison of the two sets of years
SeperateAccepts_no_year_check(agg) ==
    /\ agg.index # EmptyMap
    /\ agg.hash # EmptyMap

\* lines 166, 173, 179: the three assertions before anything is written
SeperateAccepts(agg) ==
    /\ agg.index # EmptyMap
    /\ agg.hash # EmptyMap
    /\ HashYears(agg) = IndexYears(agg)

\* lines 180-188 over the years in dictionary order ys: the years written
\* before the first year whose directory is missing (line 182)
RECURSIVE WrittenYears(_, _)
WrittenYears(ys, ds) ==
    IF ys = <<>> \/ ys[1] \notin ds THEN {}
    ELSE {ys[1]} \cup WrittenYears(Tail(ys), ds)

SeperateDatabase ==
    /\ Idle
    /\ \E ys \in SeqsOver(IndexYears(aggregate), Cardinality(IndexYears(aggregate))) :
         /\ Len(ys) = Cardinality(IndexYears(aggregate))
         /\ IF SeperateAccepts(aggregate)
            THEN LET done == WrittenYears(ys, dirs)
                 IN /\ disk' = [y \in Years |->
                                  IF y \in done THEN MiniDatabase(aggregate, y)
                                  ELSE disk[y]]
                    /\ split' = done
                    /\ error' = IF done = IndexYears(aggregate) THEN "none"
                                ELSE "AssertionError"
                    /\ pc' = IF done = IndexYears(aggregate) THEN "done"
                             ELSE "failed"
            ELSE /\ disk' = disk
                 /\ split' = {}
                 /\ error' = "AssertionError"
                 /\ pc' = "failed"
    /\ with_copy' = NoRun.with_copy
    /\ with_date' = NoRun.with_date
    /\ asset_list' = NoRun.asset_list
    /\ i' = NoRun.i
    /\ accept_map' = NoRun.accept_map
    /\ increment_list' = NoRun.increment_list
    /\ database' = NoRun.database
    /\ order' = NoRun.order
    /\ live_map' = NoRun.live_map
    /\ n' = NoRun.n
    /\ w' = NoRun.w
    /\ placed' = NoRun.placed
    /\ writes' = NoRun.writes
    /\ disk0' = disk
    /\ files0' = files
    /\ command' = "seperate-database"
    /\ given_copy' = FALSE
    /\ UNCHANGED <<dirs, aggregate, files, srcfiles, project, tempdirs,
                   tempfiles, todo>>

(***************************************************************************)
(* import_assets, lines 79-161                                             *)
(***************************************************************************)
\* lines 67-77 and 84, 101-103: the scanner hands over a list of distinct
\* existing files; the run starts with an empty cache
StartRun ==
    /\ Idle
    /\ \E l \in SeqsOver(srcfiles, MaxAssets), c \in BOOLEAN, d \in BOOLEAN :
         /\ asset_list' = l
         /\ with_copy' = c
         /\ given_copy' = c
         /\ with_date' = d
    /\ i' = 1
    /\ accept_map' = EmptyMap
    /\ increment_list' = <<>>
    /\ database' = EmptyMap
    /\ order' = <<>>
    /\ live_map' = EmptyMap
    /\ n' = 0
    /\ w' = 0
    /\ placed' = {}
    /\ writes' = [y \in Years |-> 0]
    /\ disk0' = disk
    /\ files0' = files
    /\ pc' = "dedup"
    /\ error' = "none"
    /\ command' = "import-assets"
    /\ UNCHANGED <<dirs, disk, aggregate, files, srcfiles, project, tempdirs,
                   tempfiles, todo, split>>

(***************************************************************************)
(* import_assets_from_project, lines 197-225                               *)
(***************************************************************************)
\* line 222 leaving options.with_copy as the caller gave it
ForcedCopy_as_given(given) == given

\* line 222: options.with_copy = True
ForcedCopy(given) == TRUE

\* lines 203-204, 208-210: json.load of the source catalog, and of the
\* destination catalog if the file exists, raises for this year
LoadRaises(prj, year) ==
    \/ prj.disk[year].kind # "ok"
    \/ year \in dirs /\ disk[year].kind = "corrupt"

\* lines 212-213: the destination's "hash" section, {} without a catalog
DstHashMap(year) ==
    IF year \in dirs /\ disk[year].kind = "ok" THEN disk[year].hash ELSE EmptyMap

\* the test of line 215 without its negation
Queued_if_present(prj, year) ==
    { h \in DOMAIN prj.disk[year].hash : h \in DOMAIN DstHashMap(year) }

\* lines 214-221: the fingerprints of a year whose file is queued
Queued(prj, year) ==
    { h \in DOMAIN prj.disk[year].hash : h \notin DOMAIN DstHashMap(year) }

\* the pairs <<year, fingerprint>> queued for the years of a project
QueuedPairs(prj) ==
    UNION { { <<y, h>> : h \in Queued(prj, y) } : y \in prj.dirs }

\* position of a year in the order os.listdir returned
RECURSIVE Position(_, _)
Position(ys, y) == IF ys[1] = y THEN 1 ELSE 1 + Position(Tail(ys), y)

ImportProject ==
    /\ Idle
    /\ \E prj \in Projects, c \in BOOLEAN, d \in BOOLEAN,
          ys \in SeqsOver(Years, Cardinality(Years)) :
         /\ Range(ys) = prj.dirs
         /\ project' = prj
         /\ given_copy' = c
         /\ with_date' = d
         /\ IF \E y \in prj.dirs : LoadRaises(prj, y)
            THEN \* an exception before import_assets is called
                 /\ asset_list' = <<>>
                 /\ with_copy' = c
                 /\ pc' = "failed"
                 /\ error' =
                      LET y == CHOOSE z \in prj.dirs :
                                 /\ LoadRaises(prj, z)
                                 /\ \A v \in prj.dirs :
                                       LoadRaises(prj, v)
                                          => Position(ys, z) <= Position(ys, v)
                      IN IF prj.disk[y].kind = "absent"
                         THEN "FileNotFoundError" ELSE "JSONDecodeError"
            ELSE \E q \in SeqsOver(QueuedPairs(prj), Cardinality(QueuedPairs(prj))) :
                    /\ Len(q) = Cardinality(QueuedPairs(prj))
                    /\ \A a, b \in 1..Len(q) :
                          a < b => Position(ys, q[a][1]) <= Position(ys, q[b][1])
                    /\ asset_list' =
                          [k \in 1..Len(q) |->
                             QueuedAsset(prj, q[k][1], prj.disk[q[k][1]].hash[q[k][2]])]
                    /\ with_copy' = ForcedCopy(c)
                    /\ pc' = "dedup"
                    /\ error' = "none"
    /\ i' = 1
    /\ accept_map' = EmptyMap
    /\ increment_list' = <<>>
    /\ database' = EmptyMap
    /\ order' = <<>>
    /\ live_map' = EmptyMap
    /\ n' = 0
    /\ w' = 0
    /\ placed' = {}
    /\ writes' = [y \in Years |-> 0]
    /\ disk0' = disk
    /\ files0' = files
    /\ command' = "import-project"
    /\ UNCHANGED <<dirs, disk, aggregate, files, srcfiles, tempdirs, tempfiles,
                   todo, split>>

\* the duplicate test without the in-batch half
IsDuplicate_catalog_only(digest, unick_map, accepted) ==
    digest \in DOMAIN unick_map

\* line 113: the duplicate test
IsDuplicate(digest, unick_map, accepted) ==
    digest \in DOMAIN unick_map \/ digest \in DOMAIN accepted

\* lines 104-118: one iteration of the dedup loop
DedupStep ==
    /\ pc = "dedup"
    /\ i <= Len(asset_list)
    /\ LET target_location == asset_list[i]
           timestamp == target_location.birth
           mtime == target_location.mtime
           digest == target_location.digest
           db == get_database(database, mtime.year)
           unick_map == db[mtime.year].hash
       IN IF target_location \notin Readable(project, tempfiles, srcfiles)
          THEN \* line 105: os.stat of a path that is no file
               /\ pc' = "failed"
               /\ error' = "FileNotFoundError"
               /\ UNCHANGED <<database, order, accept_map, increment_list, i>>
          ELSE /\ database' = db
               /\ order' = CacheOrder(database, order, mtime.year)
               /\ IF IsDuplicate(digest, unick_map, accept_map)
                  THEN UNCHANGED <<accept_map, increment_list>>
                  ELSE /\ accept_map' = accept_map @@ (digest :> target_location.path)
                       /\ increment_list' =
                             Append(increment_list,
                                    <<timestamp, mtime, digest, target_location.path>>)
               /\ i' = i + 1
               /\ UNCHANGED <<pc, error>>
    /\ UNCHANGED <<dirs, disk, aggregate, files, srcfiles, with_copy,
                   with_date, asset_list, live_map, n, w, disk0, files0, placed,
                   writes>>
    /\ UNCHANGED <<given_copy, command, project, tempdirs, tempfiles, todo, split>>

\* lines 125-127: sort the accepted items, start the placement loop
Sort ==
    /\ pc = "dedup"
    /\ i > Len(asset_list)
    /\ increment_list' = SortList(increment_list)
    /\ live_map' = EmptyMap
    /\ n' = 0
    /\ pc' = IF increment_list = <<>> THEN "write" ELSE "place"
    /\ UNCHANGED <<dirs, disk, aggregate, files, srcfiles, error, with_copy,
                   with_date, asset_list, i, accept_map, database, order, w,
                   disk0, files0, placed, writes>>
    /\ UNCHANGED <<given_copy, command, project, tempdirs, tempfiles, todo, split>>

\* lines 128-158: one iteration of the placement loop
Place ==
    /\ pc = "place"
    /\ n < Len(increment_list)
    /\ LET item == increment_list[n + 1]
           mtime == item[2]
           digest == item[3]
           src_location == item[4]
           year == mtime.year
           label == Label(mtime)
           db == get_database(database, year)
           index_map == WithLabel(db[year].index, label)
           common_path == src_location.stem
           got == live_map_get(live_map, common_path)
       IN /\ order' = CacheOrder(database, order, year)
          /\ IF Len(got) # 2
             THEN \* line 136 raises TypeError: nothing can be unpacked
                  /\ database' = [db EXCEPT ![year].index = index_map]
                  /\ pc' = "failed"
                  /\ error' = "TypeError"
                  /\ UNCHANGED <<dirs, files, srcfiles, live_map, n, placed,
                                 project, tempfiles>>
             ELSE LET s == Sequencer(live_map, index_map, label, common_path, got)
                      file_name == Name(label, s.sequence, src_location.ext)
                      date == DstGroup(mtime, with_date)
                  IN /\ live_map' = s.live_map
                     /\ dirs' = dirs \cup {year}
                     /\ IF Exists(files, year, date, file_name)
                        THEN \* line 152: the assertion fails
                             /\ database' = [db EXCEPT ![year].index = s.index_map]
                             /\ pc' = "failed"
                             /\ error' = "AssertionError"
                             /\ UNCHANGED <<files, srcfiles, n, placed,
                                            project, tempfiles>>
                        ELSE /\ database' =
                                  [db EXCEPT ![year].index = s.index_map,
                                             ![year].hash = (digest :> file_name) @@ @]
                             /\ files' = files \cup
                                  {[year |-> year, date |-> date,
                                    name |-> file_name, digest |-> digest]}
                             /\ srcfiles' =
                                  IF with_copy THEN srcfiles
                                  ELSE { f \in srcfiles : f.path # src_location }
                             /\ project' =
                                  IF with_copy THEN project
                                  ELSE [project EXCEPT !.files =
                                          { f \in @ : ProjectAsset(f).path
                                                         # src_location }]
                             /\ tempfiles' =
                                  IF with_copy THEN tempfiles
                                  ELSE { f \in tempfiles : ProjectAsset(f).path
                                                              # src_location }
                             /\ placed' = placed \cup
                                  {[src |-> src_location, year |-> year,
                                    date |-> date, name |-> file_name]}
                             /\ n' = n + 1
                             /\ pc' = IF n + 1 = Len(increment_list)
                                      THEN "write" ELSE "place"
                             /\ error' = "none"
    /\ UNCHANGED <<disk, aggregate, with_copy, with_date, asset_list, i,
                   accept_map, increment_list, w, disk0, files0, writes>>
    /\ UNCHANGED <<given_copy, command, tempdirs, todo, split>>

\* lines 160-161: write one cached catalog, in the cache's order
Write ==
    /\ pc = "write"
    /\ w < Len(order)
    /\ LET name == order[w + 1]
       IN IF name \in dirs
          THEN /\ disk' = [disk EXCEPT ![name] = write_database(database[name])]
               /\ writes' = [writes EXCEPT ![name] = @ + 1]
               /\ w' = w + 1
               /\ UNCHANGED <<pc, error>>
          ELSE \* line 192: open() in a directory that does not exist
               /\ pc' = "failed"
               /\ error' = "FileNotFoundError"
               /\ UNCHANGED <<disk, writes, w>>
    /\ UNCHANGED <<dirs, aggregate, files, srcfiles, with_copy, with_date,
                   asset_list, i, accept_map, increment_list, database, order,
                   live_map, n, disk0, files0, placed>>
    /\ UNCHANGED <<given_copy, command, project, tempdirs, tempfiles, todo, split>>

\* the run returns: to main, or to line 239 of rebuild_order
Finish ==
    /\ pc = "write"
    /\ w = Len(order)
    /\ pc' = IF command = "rebuild-order" THEN "cleanup" ELSE "done"
    /\ UNCHANGED <<dirs, disk, aggregate, files, srcfiles, error, with_copy,
                   with_date, asset_list, i, accept_map, increment_list,
                   database, order, live_map, n, w, disk0, files0, placed, writes>>
    /\ UNCHANGED <<given_copy, command, project, tempdirs, tempfiles, todo, split>>

(***************************************************************************)
(* rebuild_order, lines 227-239                                            *)
(***************************************************************************)
\* the asset files of a year directory, or of its _temp sibling
InYear(fs, year) == { f \in fs : f.year = year }

\* lines 274-277: options.years is not empty; its years are distinct here
RebuildOrder ==
    /\ Idle
    /\ \E ys \in SeqsOver(Years, Cardinality(Years)), c \in BOOLEAN, d \in BOOLEAN :
         /\ ys # <<>>
         /\ todo' = ys
         /\ with_copy' = c
         /\ given_copy' = c
         /\ with_date' = d
    /\ command' = "rebuild-order"
    /\ pc' = "rebuild"
    /\ error' = "none"
    /\ disk0' = disk
    /\ files0' = files
    /\ UNCHANGED <<dirs, disk, aggregate, files, srcfiles, asset_list, i,
                   accept_map, increment_list, database, order, live_map, n, w,
                   placed, writes, project, tempdirs, tempfiles, split>>

\* lines 228-238: the next year of the loop, up to the call of import_assets
RebuildYear ==
    /\ pc = "rebuild"
    /\ todo # <<>>
    /\ LET year == Head(todo)
       IN IF year \notin dirs
          THEN \* line 230: continue
               /\ todo' = Tail(todo)
               /\ UNCHANGED <<dirs, disk, files, tempdirs, tempfiles, pc,
                              asset_list, i, accept_map, increment_list,
                              database, order, live_map, n, w, placed, writes,
                              disk0, files0>>
          ELSE \* lines 232-234: rmtree of an old sibling, then the rename,
               \* which takes database.json along; lines 235-238 and 67-77:
               \* walk the sibling and start an import with an empty cache
               /\ dirs' = dirs \ {year}
               /\ disk' = [disk EXCEPT ![year] = Absent]
               /\ files' = files \ InYear(files, year)
               /\ tempdirs' = tempdirs \cup {year}
               /\ tempfiles' = (tempfiles \ InYear(tempfiles, year))
                                  \cup InYear(files, year)
               /\ \E l \in SeqsOver({ ProjectAsset(f) : f \in InYear(files, year) },
                                    Cardinality(InYear(files, year))) :
                     /\ Len(l) = Cardinality(InYear(files, year))
                     /\ asset_list' = l
               /\ i' = 1
               /\ accept_map' = EmptyMap
               /\ increment_list' = <<>>
               /\ database' = EmptyMap
               /\ order' = <<>>
               /\ live_map' = EmptyMap
               /\ n' = 0
               /\ w' = 0
               /\ placed' = {}
               /\ writes' = [y \in Years |-> 0]
               /\ disk0' = disk'
               /\ files0' = files'
               /\ pc' = "dedup"
               /\ UNCHANGED todo
    /\ UNCHANGED <<aggregate, srcfiles, error, with_copy, with_date,
                   given_copy, command, project, split>>

\* line 239: shutil.rmtree(temp_project_path), and on to the next year
RebuildCleanup ==
    /\ pc = "cleanup"
    /\ tempdirs' = tempdirs \ {Head(todo)}
    /\ tempfiles' = tempfiles \ InYear(tempfiles, Head(todo))
    /\ todo' = Tail(todo)
    /\ pc' = "rebuild"
    /\ UNCHANGED <<dirs, disk, aggregate, files, srcfiles, error, with_copy,
                   with_date, asset_list, i, accept_map, increment_list,
                   database, order, live_map, n, w, disk0, files0, placed,
                   writes, given_copy, command, project, split>>

\* the loop of line 228 is over
RebuildReturn ==
    /\ pc = "rebuild"
    /\ todo = <<>>
    /\ pc' = "done"
    /\ UNCHANGED <<dirs, disk, aggregate, files, srcfiles, error, with_copy,
                   with_date, asset_list, i, accept_map, increment_list,
                   database, order, live_map, n, w, disk0, files0, placed,
                   writes, given_copy, command, project, tempdirs, tempfiles,
                   todo, split>>

\* the process ends, with or without an exception: its memory is gone
Exit ==
    /\ pc \in {"done", "failed"}
    /\ pc' = "idle"
    /\ error' = "none"
    /\ with_copy' = NoRun.with_copy
    /\ with_date' = NoRun.with_date
    /\ asset_list' = NoRun.asset_list
    /\ i' = NoRun.i
    /\ accept_map' = NoRun.accept_map
    /\ increment_list' = NoRun.increment_list
    /\ database' = NoRun.database
    /\ order' = NoRun.order
    /\ live_map' = NoRun.live_map
    /\ n' = NoRun.n
    /\ w' = NoRun.w
    /\ placed' = NoRun.placed
    /\ writes' = NoRun.writes
    /\ disk0' = disk
    /\ files0' = files
    /\ command' = "none"
    /\ given_copy' = FALSE
    /\ project' = NoProject
    /\ todo' = <<>>
    /\ split' = {}
    /\ UNCHANGED <<dirs, disk, aggregate, files, srcfiles, tempdirs, tempfiles>>

Next ==
    \/ SeperateDatabase
    \/ StartRun
    \/ ImportProject
    \/ RebuildOrder
    \/ RebuildYear
    \/ RebuildCleanup
    \/ RebuildReturn
    \/ DedupStep
    \/ Sort
    \/ Place
    \/ Write
    \/ Finish
    \/ Exit

Spec == Init /\ [][Next]_vars

(***************************************************************************)
(* Properties                                                              *)
(***************************************************************************)
RunPcs == {"dedup", "place", "write"}
Ended == pc \in {"done", "failed"}

\* the source paths the dedup pass accepted so far
AcceptedPaths == { increment_list[k][4] : k \in 1..Len(increment_list) }
AcceptedAssets == { a \in Range(asset_list) : a.path \in AcceptedPaths }

\* the destination names the run gave to a source path
PlacedNames(path) == { e.name : e \in { x \in placed : x.src = path } }

\* C2: when a run has ended, the first two accepted assets of a companion
\* group (same path without extension) have been placed under one and the
\* same sequence number, and a third one under another sequence number.
C2_CompanionsShareSequence ==
    (Ended /\ asset_list # <<>>) =>
        \A p, q \in 1..Len(increment_list) :
            (p < q /\ increment_list[p][4].stem = increment_list[q][4].stem) =>
                LET before == Cardinality({ r \in 1..(q - 1) :
                        increment_list[r][4].stem = increment_list[q][4].stem })
                    sp == { x.seq : x \in PlacedNames(increment_list[p][4]) }
                    sq == { x.seq : x \in PlacedNames(increment_list[q][4]) }
                IN /\ Cardinality(sp) = 1
                   /\ Cardinality(sq) = 1
                   /\ before = 1 => sp = sq
                   /\ before = 2 => sp # sq

\* C3: an asset the dedup loop has passed is rejected exactly when its
\* fingerprint was in its year's HashIndex at the start of the run or is the
\* fingerprint of an asset accepted earlier in the list; nothing is placed,
\* sequenced or recorded for a rejected asset, and no rejection ends the run.
C3_DedupRejects ==
    /\ \A k \in 1..Len(asset_list) :
          k < i =>
             LET a == asset_list[k]
             IN (a.path \notin AcceptedPaths) <=>
                   \/ a.digest \in DOMAIN disk0[a.mtime.year].hash
                   \/ \E j \in 1..(k - 1) :
                         /\ asset_list[j].digest = a.digest
                         /\ asset_list[j].path \in AcceptedPaths
    /\ \A e \in placed : e.src \in AcceptedPaths
    /\ \A s \in DOMAIN live_map : \E q \in AcceptedPaths : q.stem = s
    /\ \A y \in DOMAIN database :
          /\ \A h \in DOMAIN database[y].hash :
                \/ h \in DOMAIN disk0[y].hash
                \/ \E a \in AcceptedAssets : a.digest = h /\ a.mtime.year = y
          /\ \A l \in DOMAIN database[y].index :
                \/ l \in DOMAIN disk0[y].index
                \/ \E a \in AcceptedAssets : Label(a.mtime) = l
    /\ (pc = "failed" /\ asset_list # <<>> /\ i <= Len(asset_list)) =>
          \* the loop stops only at a path that is no file
          asset_list[i] \notin Readable(project, tempfiles, srcfiles)

\* a rejection by the catalog, an acceptance after it and a rejection
\* inside the batch, with the dedup loop finished
C3_Witness ==
    /\ pc = "place"
    /\ Len(asset_list) = 3
    /\ asset_list[1].digest \in DOMAIN disk0[asset_list[1].mtime.year].hash
    /\ asset_list[1].path \notin AcceptedPaths
    /\ asset_list[2].path \in AcceptedPaths
    /\ asset_list[3].digest = asset_list[2].digest
    /\ asset_list[3].digest \notin DOMAIN disk0[asset_list[3].mtime.year].hash
    /\ asset_list[3].path \notin AcceptedPaths

\* every candidate's fingerprint is in its year's HashIndex
AllKnown ==
    /\ asset_list # <<>>
    /\ \A k \in 1..Len(asset_list) :
          /\ asset_list[k].mtime.year \in Years
          /\ asset_list[k].digest \in DOMAIN disk0[asset_list[k].mtime.year].hash

\* C4: a run whose candidates are all known to their year's catalog copies
\* and moves nothing, does not fail, and leaves every catalog file as it was.
C4_Idempotent ==
    AllKnown =>
        /\ placed = {}
        /\ files = files0
        /\ Range(asset_list) \subseteq srcfiles
        /\ pc # "failed"
        /\ \A y \in Years :
              /\ disk[y].hash = disk0[y].hash
              /\ disk[y].index = disk0[y].index
              /\ disk[y].kind = disk0[y].kind

C4_Witness ==
    /\ AllKnown
    /\ pc = "done"
    /\ \E y \in Years : writes[y] = 1 /\ disk[y].index # EmptyMap

\* the years whose catalog the run loads: the years of its candidates
Touched == { a.mtime.year : a \in Range(asset_list) }

\* C7: no catalog is written while assets are still being deduplicated or
\* placed, no catalog is written twice, and a run that returns has written
\* the catalog of exactly the years it touched, once each.
C7_WriteOnceAtEnd ==
    /\ pc \in {"dedup", "place"} =>
          /\ \A y \in Years : writes[y] = 0
          /\ disk = disk0
    /\ (\E y \in Years : writes[y] > 0) => n = Len(increment_list)
    /\ \A y \in Years : writes[y] <= 1
    /\ pc = "done" =>
          \A y \in Years : writes[y] = IF y \in Touched THEN 1 ELSE 0

\* a run that returned after touching both years
C7_Witness ==
    /\ pc = "done"
    /\ Touched = Years
    /\ \A y \in Years : writes[y] = 1

EntriesKept(before, after) ==
    \A h \in DOMAIN before : h \in DOMAIN after /\ after[h] = before[h]

\* a step of an import run keeps every entry
C8_Step ==
    pc \in RunPcs =>
        \A y \in Years :
            /\ EntriesKept(disk[y].hash, disk'[y].hash)
            /\ (y \in DOMAIN database /\ y \in DOMAIN database')
                  => EntriesKept(database[y].hash, database'[y].hash)
            /\ (y \notin DOMAIN database /\ y \in DOMAIN database')
                  => EntriesKept(disk[y].hash, database'[y].hash)

\* C8: no step of an import run removes an entry fingerprint -> filename or
\* changes its filename, in the catalog file, in the cached catalog, or when
\* the cached catalog is loaded from a readable file.
C8_EntriesPermanent == [][C8_Step]_vars

\* a run returned after rewriting a catalog that holds entries
C8_Witness ==
    /\ pc = "done"
    /\ \E y \in Years : writes[y] = 1 /\ disk[y].hash # EmptyMap

Sorted == pc \in {"place", "write", "done"}

\* source path order: string order of stem + "." + ext
PathBefore(p, q) ==
    \/ p.stem < q.stem
    \/ p.stem = q.stem /\ ExtRank(p.ext) < ExtRank(q.ext)

FreshScenario ==
    /\ asset_list # <<>>
    /\ files0 = {}
    /\ \A y \in Years : disk0[y].kind = "absent"
    /\ \A a, b \in 1..Len(asset_list) :
          /\ Label(asset_list[a].mtime) = Label(asset_list[b].mtime)
          /\ a # b => /\ asset_list[a].digest # asset_list[b].digest
                      /\ asset_list[a].birth # asset_list[b].birth
                      /\ asset_list[a].path.stem # asset_list[b].path.stem

\* C10: when such a run has ended, the asset with the k-th smallest
\* timestamp has been placed under the name label_000k.ext.
C10_ChronologicalNames ==
    (Ended /\ FreshScenario) =>
        \A k \in 1..Len(asset_list) :
            LET a == asset_list[k]
                rank == 1 + Cardinality({ j \in 1..Len(asset_list) :
                                            asset_list[j].birth < a.birth })
            IN PlacedNames(a.path) = { Name(Label(a.mtime), rank, a.path.ext) }

\* the year named by the first four characters of a filename or a label
NameYear(name) == name.label \div 100
LabelYear(l) == l \div 100

\* C11: when seperate_database returns, every "hash" entry and every
\* "index" entry of the aggregate catalog is in exactly one of the catalogs
\* it wrote, the one of the year its filename or label starts with, and the
\* written catalogs hold nothing else.
C11_SplitPartitions ==
    (command = "seperate-database" /\ pc = "done") =>
        /\ \A h \in DOMAIN aggregate.hash :
              /\ { y \in split : h \in DOMAIN disk[y].hash } =
                    { NameYear(aggregate.hash[h]) }
              /\ disk[NameYear(aggregate.hash[h])].hash[h] = aggregate.hash[h]
        /\ \A l \in DOMAIN aggregate.index :
              /\ { y \in split : l \in DOMAIN disk[y].index } = { LabelYear(l) }
              /\ disk[LabelYear(l)].index[l] = aggregate.index[l]
        /\ \A y \in split :
              /\ disk[y].kind = "ok"
              /\ \A h \in DOMAIN disk[y].hash :
                    h \in DOMAIN aggregate.hash /\ disk[y].hash[h] = aggregate.hash[h]
              /\ \A l \in DOMAIN disk[y].index :
                    l \in DOMAIN aggregate.index /\ disk[y].index[l] = aggregate.index[l]

\* a split that wrote the catalogs of two years
C11_Witness ==
    /\ command = "seperate-database"
    /\ pc = "done"
    /\ Cardinality(split) = 2
    /\ \A y \in split : disk[y].hash # EmptyMap /\ disk[y].index # EmptyMap

\* the years of the aggregate's two sections differ
YearsMismatch ==
    { NameYear(aggregate.hash[h]) : h \in DOMAIN aggregate.hash } #
    { LabelYear(l) : l \in DOMAIN aggregate.index }

\* C12: when the years of the "hash" filenames differ from the years of the
\* "index" labels, seperate_database ends with a failed assertion and has
\* written no per-year catalog.
C12_MismatchWritesNothing ==
    (command = "seperate-database" /\ Ended /\ YearsMismatch) =>
        /\ pc = "failed"
        /\ error = "AssertionError"
        /\ split = {}
        /\ disk = disk0

\* a mismatching aggregate was refused although every directory exists
C12_Witness ==
    /\ command = "seperate-database"
    /\ pc = "failed"
    /\ YearsMismatch
    /\ aggregate.hash # EmptyMap
    /\ \A l \in DOMAIN aggregate.index : LabelYear(l) \in dirs

(***************************************************************************)
(* import_assets_from_project                                              *)
(***************************************************************************)
\* a run of import-project that got as far as calling import_assets
ProjectImporting ==
    /\ command = "import-project"
    /\ pc \in RunPcs \cup {"done", "failed"}
    /\ ~ \E y \in project.dirs : LoadRaises(project, y)

\* C13: whatever --with-copy was given, import-project runs import_assets in
\* copy mode, every file it placed still exists at its source, and the files
\* and catalogs of the source project are those of the project it was
\* pointed at.
C13_SourceProjectKept ==
    command = "import-project" =>
        /\ project \in Projects
        /\ ProjectImporting =>
              /\ with_copy = TRUE
              /\ \A e \in placed :
                    \E f \in project.files : ProjectAsset(f).path = e.src

\* the caller asked for a move, and the run went through the dedup pass and
\* the sort into the placement loop with a file of the source project
C13_Witness ==
    /\ command = "import-project"
    /\ given_copy = FALSE
    /\ with_copy = TRUE
    /\ pc \in {"place", "failed"}
    /\ increment_list # <<>>
    /\ \E f \in project.files : ProjectAsset(f).path = increment_list[1][4]

\* the queue as a set of <<year, fingerprint>> pairs: what lines 214-221
\* must have queued, computed from the catalogs at the start of the run
ExpectedQueue ==
    UNION { { <<y, h>> : h \in { g \in DOMAIN project.disk[y].hash :
                  ~ ( /\ y \in dirs
                      /\ disk0[y].kind = "ok"
                      /\ g \in DOMAIN disk0[y].hash ) } } : y \in project.dirs }

C16_Step ==
    pc \in RunPcs =>
        /\ \A y \in Years :
              /\ (y \notin DOMAIN database /\ y \in DOMAIN database') =>
                    /\ pc' # "failed"
                    /\ IF y \in dirs /\ disk[y].kind = "ok"
                       THEN /\ database'[y].hash = disk[y].hash
                            /\ database'[y].index = disk[y].index
                       ELSE /\ database'[y].hash = EmptyMap
                            /\ database'[y].index = EmptyMap
              /\ y \in DOMAIN database =>
                    /\ y \in DOMAIN database'
                    /\ EntriesKept(database[y].hash, database'[y].hash)
                    /\ \A l \in DOMAIN database[y].index :
                          l \in DOMAIN database'[y].index
        /\ Len(order') = Cardinality(DOMAIN database')
        /\ Range(order') = DOMAIN database'

\* C16: get_database returns the stored HashIndex and SequenceIndex of a
\* present, well-formed catalog file and an empty catalog, without an error,
\* for a missing or malformed one; a year is loaded at most once in a run and
\* later accesses get the cached catalog.
C16_LoadOnceCached == [][C16_Step]_vars

\* a run that loaded a catalog with entries, met that year a second time,
\* and loaded an empty catalog from a file that cannot be parsed
C16_Witness ==
    /\ pc \in RunPcs
    /\ Len(order) = 2
    /\ i > 3
    /\ \E y, z \in DOMAIN database :
          /\ y \in dirs /\ disk0[y].kind = "ok"
          /\ database[y].hash # EmptyMap
          /\ database[y].hash = disk0[y].hash
          /\ database[y].index = disk0[y].index
          /\ z \in dirs /\ disk0[z].kind = "corrupt"
          /\ database[z].hash = EmptyMap
          /\ Cardinality({ k \in 1..3 : asset_list[k].mtime.year = y }) = 2

(***************************************************************************)
(* the sequencer, lines 133-143                                            *)
(***************************************************************************)
\* the counter of a label as the placement loop finds it: the cached
\* SequenceIndex entry, 1 for a label the year has not seen
Counter(year, label) ==
    IF year \in DOMAIN database /\ label \in DOMAIN database[year].index
    THEN database[year].index[label]
    ELSE 1

\* one iteration of the placement loop does what the sequencer is said to do
C17_Step ==
    (pc = "place" /\ n < Len(increment_list)) =>
        LET item == increment_list[n + 1]
            year == item[2].year
            label == Label(item[2])
            key == item[4].stem
            fresh == \/ key \notin DOMAIN live_map
                     \/ live_map[key][2] >= 2
        IN /\ key \in DOMAIN live_map'
           /\ year \in DOMAIN database'
           /\ label \in DOMAIN database'[year].index
           /\ IF fresh
              THEN /\ live_map'[key] = <<Counter(year, label), 1>>
                   /\ database'[year].index[label] = Counter(year, label) + 1
              ELSE /\ live_map'[key] = <<live_map[key][1], 2>>
                   /\ database'[year].index[label] = Counter(year, label)

\* C17: for an accepted asset whose companion key has no state in the run,
\* or a member count of 2 or more, the sequencer takes the label's counter
\* (1 for an unseen label) as the sequence, records (sequence, 1) for the key
\* and adds one to the counter; for a key with member count 1 it records
\* (recorded sequence, 2) and leaves the counter as it is.
C17_Sequencer == [][C17_Step]_vars
====
